---- MODULE Spec2Model ----
(***************************************************************************)
(* State-machine model of src/datacollector.py: the generator              *)
(* collect_text_from_folders (discovery, sequential reader, concurrent     *)
(* reader on a ThreadPoolExecutor) and its caller main (temp_output.txt,   *)
(* the NoMatches branch, the final write and its failure handler).         *)
(*                                                                         *)
(* A generator runs only while its consumer is inside next(): the          *)
(* generator's own steps are guarded by cons_pc = "next".  The worker      *)
(* threads of the pool run at any time once a task is submitted.           *)
(***************************************************************************)
EXTENDS Integers, Sequences, FiniteSets, Bags, TLC

(***************************************************************************)
(* Bounds of the model.                                                    *)
(***************************************************************************)
\* longest list of roots the caller supplies
MaxRoots == 2
\* most read tasks a concurrent-mode run is explored with
MaxTasks == 5

(***************************************************************************)
(* The file system the runs are explored on.  A path is an index into FS;  *)
(* a name is a sequence of characters, so that suffix and lower() are      *)
(* computed and not assumed.  scandir order is the order of the indices.   *)
(* utf8 says whether the bytes decode as UTF-8; flaky marks the files      *)
(* whose open() or read() may fail at any call.                            *)
(*    1 A/             2 A/a.txt       3 A/B.TXT (not UTF-8)               *)
(*    4 A/n.md (flaky) 5 A/.txt        6 A/sub/                            *)
(*    7 A/sub/c.txt (empty, flaky)     8 A/sub/d.Txt                       *)
(*    9 A/sub/deep/   10 A/sub/deep/g.txt                                  *)
(*   11 B/            12 B/e.txt      13 B/h.txt                           *)
(*   14 B/x.txt/ (a directory)        15 B/x.txt/f.md (not UTF-8)          *)
(*   16 F.txt (a regular file)        17 M (does not exist)                *)
(***************************************************************************)
Entry(par, nm, kd, u8, fl, tx) ==
  [parent |-> par, name |-> nm, kind |-> kd, utf8 |-> u8, flaky |-> fl, text |-> tx]

FS ==
  << Entry(0,  <<"A">>,                     "dir",    FALSE, FALSE, <<>>),
     Entry(1,  <<"a", ".", "t", "x", "t">>, "file",   TRUE,  FALSE, <<"hello">>),
     Entry(1,  <<"B", ".", "T", "X", "T">>, "file",   FALSE, FALSE, <<>>),
     Entry(1,  <<"n", ".", "m", "d">>,      "file",   TRUE,  TRUE,  <<"note">>),
     Entry(1,  <<".", "t", "x", "t">>,      "file",   TRUE,  FALSE, <<"hidden">>),
     Entry(1,  <<"s", "u", "b">>,           "dir",    FALSE, FALSE, <<>>),
     Entry(6,  <<"c", ".", "t", "x", "t">>, "file",   TRUE,  TRUE,  <<>>),
     Entry(6,  <<"d", ".", "T", "x", "t">>, "file",   TRUE,  FALSE, <<"more">>),
     Entry(6,  <<"d", "e", "e", "p">>,      "dir",    FALSE, FALSE, <<>>),
     Entry(9,  <<"g", ".", "t", "x", "t">>, "file",   TRUE,  FALSE, <<"deep">>),
     Entry(0,  <<"B">>,                     "dir",    FALSE, FALSE, <<>>),
     Entry(11, <<"e", ".", "t", "x", "t">>, "file",   TRUE,  FALSE, <<"world">>),
     Entry(11, <<"h", ".", "t", "x", "t">>, "file",   TRUE,  FALSE, <<"again">>),
     Entry(11, <<"x", ".", "t", "x", "t">>, "dir",    FALSE, FALSE, <<>>),
     Entry(14, <<"f", ".", "m", "d">>,      "file",   FALSE, FALSE, <<>>),
     Entry(0,  <<"F", ".", "t", "x", "t">>, "file",   TRUE,  FALSE, <<"root">>),
     Entry(0,  <<"M">>,                     "absent", FALSE, FALSE, <<>>) >>

Paths == 1..Len(FS)

\* the paths a caller passes as roots: two directories, a regular file, a missing path
RootChoices == {1, 11, 16, 17}

\* the extensions a caller passes: ".txt" and ".Md"
Extensions == { <<".", "t", "x", "t">>, <<".", "M", "d">> }

(***************************************************************************)
(* pathlib and str operations used by the generator.                       *)
(***************************************************************************)
\* Path.exists()
exists(p) == FS[p].kind # "absent"

\* Path.is_dir()
is_dir(p) == FS[p].kind = "dir"

\* Path.is_file()
is_file(p) == FS[p].kind = "file"

\* str.lower() on one character
LowerChar(c) ==
  CASE c = "A" -> "a" [] c = "B" -> "b" [] c = "F" -> "f" [] c = "M" -> "m"
    [] c = "T" -> "t" [] c = "X" -> "x" [] OTHER -> c

\* str.lower()
lower(s) == [i \in 1..Len(s) |-> LowerChar(s[i])]

\* str.rfind('.'), 1-based, 0 when there is no dot
RFindDot(s) ==
  LET dots == {i \in 1..Len(s) : s[i] = "."}
  IN  IF dots = {} THEN 0 ELSE CHOOSE i \in dots : \A j \in dots : j <= i

\* Path.suffix: the last dot and what follows it, unless the dot is the
\* first or the last character of the name
suffix(p) ==
  LET n == FS[p].name
      i == RFindDot(n)
  IN  IF 1 < i /\ i < Len(n) THEN SubSeq(n, i, Len(n)) ELSE <<>>

\* os.scandir(d): the entries of directory d, in directory order
scandir(d) == SelectSeq([i \in 1..Len(FS) |-> i], LAMBDA q : FS[q].parent = d)

RECURSIVE Flatten(_)
Flatten(ss) == IF ss = <<>> THEN <<>> ELSE Head(ss) \o Flatten(Tail(ss))

\* rglob as it would be if it were glob('*'): the entries of d alone
rglob_Flat(d) == scandir(d)

\* Path.rglob('*'): the entries of d, then those of each subdirectory of d,
\* recursively, in directory order
RECURSIVE rglob(_)
rglob(d) ==
  LET es   == scandir(d)
      subs == SelectSeq(es, is_dir)
  IN  es \o Flatten([i \in 1..Len(subs) |-> rglob(subs[i])])

\* Matches as it would be without the is_file() test
Matches_AnyEntry(file_path, ext) == lower(suffix(file_path)) = lower(ext)

\* line 27: the filter of the discovery loop
Matches(file_path, ext) == is_file(file_path) /\ lower(suffix(file_path)) = lower(ext)

\* lines 26-28: the files one existing root adds to all_files
RootMatches(folder, ext) == SelectSeq(rglob(folder), LAMBDA q : Matches(q, ext))

\* line 20: the roots the loop skips
Skipped(folder) == ~exists(folder) \/ ~is_dir(folder)


\* lines 17-28 as a whole: the list discovery builds for a list of roots
RECURSIVE Discovery(_, _)
Discovery(fs, ext) ==
  IF fs = <<>> THEN <<>>
  ELSE (IF Skipped(Head(fs)) THEN <<>> ELSE RootMatches(Head(fs), ext))
       \o Discovery(Tail(fs), ext)

(***************************************************************************)
(* read_file, lines 33-47.  io_ok is whether open() and read() succeed at  *)
(* the moment of the call (permissions, I/O, a file that vanished).        *)
(***************************************************************************)
\* the ways open() and read() of a file can go at one call
IoChoices(file_path) == IF FS[file_path].flaky THEN BOOLEAN ELSE {TRUE}

\* which of the three branches of read_file is taken
ReadOutcome(file_path, io_ok) ==
  IF ~io_ok THEN "error"
  ELSE IF ~FS[file_path].utf8 THEN "decode"
  ELSE "ok"

\* line 37: the banner block (the banner's literal is Russian in the source)
Banner(file_path, text) ==
  <<"--- File content: ">> \o FS[file_path].name \o <<" ---\n">> \o text \o <<"\n\n">>

\* the value read_file returns
read_file(file_path, io_ok) ==
  IF ReadOutcome(file_path, io_ok) = "ok"
  THEN Banner(file_path, FS[file_path].text)
  ELSE <<>>

\* ReadLog as it would be if both handlers logged at the same level
ReadLog_AllErrors(file_path, io_ok) ==
  CASE ReadOutcome(file_path, io_ok) = "decode" ->
         << [level |-> "ERROR", what |-> "decode", path |-> file_path] >>
    [] ReadOutcome(file_path, io_ok) = "error" ->
         << [level |-> "ERROR", what |-> "read", path |-> file_path] >>
    [] OTHER -> <<>>

\* the records read_file hands to logging (lines 41 and 46)
ReadLog(file_path, io_ok) ==
  CASE ReadOutcome(file_path, io_ok) = "decode" ->
         << [level |-> "WARNING", what |-> "decode", path |-> file_path] >>
    [] ReadOutcome(file_path, io_ok) = "error" ->
         << [level |-> "ERROR", what |-> "read", path |-> file_path] >>
    [] OTHER -> <<>>

\* lines 54-56 as a whole: what the sequential loop yields for a list of
\* files when the i-th read meets io[i]
SequentialYield(fl, ios) == [i \in 1..Len(fl) |-> read_file(fl[i], ios[i])]

\* line 50: max_workers
max_workers == 4

(***************************************************************************)
(* Text and bytes, lines 93 and 121.  A text is a sequence of pieces; a    *)
(* file holds bytes, here one encoded piece per piece of text.  The pieces *)
(* outside ASCII are the banner's literal of line 37 (Russian in the       *)
(* source) and what a wrong decoding makes of it.                          *)
(***************************************************************************)
\* the encodings the platform's locale can name (locale.getencoding())
Encodings == {"utf-8", "cp1251"}

\* what the bytes of the banner's literal read as under another encoding
Mojibake == "--- <mojibake>: "

\* the pieces of text that hold characters outside ASCII
NonAscii == {"--- File content: ", Mojibake}

\* str.encode: an ASCII piece has the same bytes under every encoding
encode(text, encoding) ==
  [i \in 1..Len(text) |->
     [enc |-> IF text[i] \in NonAscii THEN encoding ELSE "ascii", of |-> text[i]]]

\* bytes.decode without an error: bytes written under another encoding
\* come back as other characters
decode(bytes, encoding) ==
  [i \in 1..Len(bytes) |->
     IF bytes[i].enc \in {"ascii", encoding} THEN bytes[i].of ELSE Mojibake]

(***************************************************************************)
(* State.                                                                  *)
(***************************************************************************)
VARIABLES
  caller,              \* "main" (lines 59-129) or "direct" (any other consumer)
  folders,             \* the roots, in the caller's order
  extension,           \* the extension, as characters
  use_multithreading,  \* the mode flag
  preferred_encoding,  \* the locale's encoding, what open() uses when given none
  gen_pc,              \* where the generator is suspended
  di,                  \* index of the next root of the loop of line 19
  all_files,           \* line 17
  k,                   \* index of the next file to read (line 55) or submit (line 51)
  io,                  \* io[i]: whether the i-th read's I/O succeeded
  fate,                \* fate[i]: the branch the i-th read took, "none" before
  result,              \* result[i]: what the i-th read returned
  fut,                 \* fut[i]: state of the i-th future
  workq,               \* the executor's work queue
  running,             \* the tasks the workers are executing
  installed,           \* as_completed has taken its snapshot
  early,               \* futures finished before the snapshot, not yet yielded
  waiter,              \* futures finished after the snapshot, in finishing order
  yielded,             \* indices of the files whose result was yielded, in order
  items,               \* the items yielded, in order
  chunk,               \* the item the consumer holds
  cons_pc,             \* where the consumer is
  log,                 \* log.txt: the records written, in order
  temp_exists,         \* temp_output.txt exists
  temp_created,        \* history: temp_output.txt has existed in this run
  temp,                \* content of temp_output.txt, as bytes
  has_content,         \* line 90
  output_file,         \* line 104, as changed by the dialog of lines 106-118
  files,               \* state of each possible output file
  out_data,            \* content of the output file written, as bytes
  asked,               \* the overwrite question was put
  outcome,             \* how the run of main ended
  done_order,          \* history: the tasks in the order in which they completed
  snapshot_at,         \* history: how many had completed at as_completed's snapshot
  task_pc,             \* task_pc[i]: where read_file is in task i, once it has read
  log_lock,            \* the task that holds the lock of log.txt's handler, 0 if none
  log_file,            \* log.txt as the writes that reached it, in order
  stderr               \* the error stream as the writes that reached it, in order

gen_vars  == <<gen_pc, di, all_files, k, io, fate, result>>
pool_vars == <<fut, workq, running, installed, early, waiter>>
main_vars == <<temp_exists, temp_created, temp, has_content, output_file, files, out_data, asked, outcome>>
in_vars   == <<caller, folders, extension, use_multithreading, preferred_encoding>>
hist_vars == <<done_order, snapshot_at>>
task_vars == <<task_pc, log_lock, log_file, stderr>>
fine_vars == <<hist_vars, task_vars>>
vars == <<in_vars, gen_vars, pool_vars, yielded, items, chunk, cons_pc, log, main_vars,
          fine_vars>>

RECURSIVE SeqsUpTo(_, _)
SeqsUpTo(S, n) ==
  IF n = 0 THEN { <<>> }
  ELSE LET shorter == SeqsUpTo(S, n - 1)
       IN  shorter \cup { Append(s, x) : s \in shorter, x \in S }

OutputNames == {"output.txt", "other"}

Init ==
  /\ caller \in {"main", "direct"}
  /\ folders \in SeqsUpTo(RootChoices, MaxRoots)
  /\ extension \in Extensions
  /\ use_multithreading \in BOOLEAN
  /\ preferred_encoding \in Encodings
  \* only main opens a file without naming the encoding (line 121)
  /\ caller = "direct" => preferred_encoding = "utf-8"
  \* line 88: main passes use_multithreading=False; lines 65-67: at least one root
  /\ caller = "main" => ~use_multithreading /\ folders # <<>>
  \* concurrent runs are explored for inputs of at most MaxTasks files
  /\ use_multithreading => Len(Discovery(folders, extension)) <= MaxTasks
  /\ gen_pc = "created"
  /\ di = 1
  /\ all_files = <<>>
  /\ k = 1
  /\ io = <<>>
  /\ fate = <<>>
  /\ result = <<>>
  /\ fut = <<>>
  /\ workq = <<>>
  /\ running = {}
  /\ installed = FALSE
  /\ early = {}
  /\ waiter = <<>>
  /\ yielded = <<>>
  /\ items = <<>>
  /\ chunk = <<>>
  /\ cons_pc = "start"
  /\ log = <<>>
  /\ temp_exists = FALSE
  /\ temp_created = FALSE
  /\ temp = <<>>
  /\ has_content = FALSE
  /\ output_file = "output.txt"
  /\ files \in [OutputNames -> {"absent", "old"}]
  /\ files["other"] = "absent"
  /\ caller = "direct" => files["output.txt"] = "absent"
  /\ out_data = <<>>
  /\ asked = FALSE
  /\ outcome = "none"
  /\ done_order = <<>>
  /\ snapshot_at = 0
  /\ task_pc = [i \in {} |-> "run"]
  /\ log_lock = 0
  /\ log_file = <<>>
  /\ stderr = <<>>


(***************************************************************************)
(* The generator collect_text_from_folders, lines 15-56.                   *)
(***************************************************************************)
\* what a yield does: the item goes to the consumer, which leaves next()
Deliver(i, item) ==
  /\ yielded' = Append(yielded, i)
  /\ items' = Append(items, item)
  /\ chunk' = item
  /\ cons_pc' = "got"

\* Begin as it would be if the body ran when the generator is created
Begin_AtCall ==
  /\ gen_pc = "created"
  /\ gen_pc' = "discover"
  /\ all_files' = <<>>
  /\ di' = 1
  /\ UNCHANGED <<fine_vars, in_vars, k, io, fate, result, pool_vars, yielded, items, chunk,
                 cons_pc, log, main_vars>>

\* the first next(): the body starts, line 17
Begin ==
  /\ gen_pc = "created" /\ cons_pc = "next"
  /\ gen_pc' = "discover"
  /\ all_files' = <<>>
  /\ di' = 1
  /\ UNCHANGED <<fine_vars, in_vars, k, io, fate, result, pool_vars, yielded, items, chunk,
                 cons_pc, log, main_vars>>

\* SkipRoot as it would be with break in the place of continue
SkipRoot_Break ==
  /\ gen_pc = "discover" /\ cons_pc = "next"
  /\ di <= Len(folders)
  /\ Skipped(folders[di])
  /\ log' = Append(log, [level |-> "WARNING", what |-> "root", path |-> folders[di]])
  /\ di' = Len(folders) + 1
  /\ UNCHANGED <<fine_vars, in_vars, gen_pc, all_files, k, io, fate, result, pool_vars, yielded,
                 items, chunk, cons_pc, main_vars>>

\* lines 19-24: a root that does not exist or is not a directory
SkipRoot ==
  /\ gen_pc = "discover" /\ cons_pc = "next"
  /\ di <= Len(folders)
  /\ Skipped(folders[di])
  /\ log' = Append(log, [level |-> "WARNING", what |-> "root", path |-> folders[di]])
  /\ di' = di + 1
  /\ UNCHANGED <<fine_vars, in_vars, gen_pc, all_files, k, io, fate, result, pool_vars, yielded,
                 items, chunk, cons_pc, main_vars>>

\* WalkRoot as it would be if a root's files were put before those listed
WalkRoot_Prepend ==
  /\ gen_pc = "discover" /\ cons_pc = "next"
  /\ di <= Len(folders)
  /\ ~Skipped(folders[di])
  /\ all_files' = RootMatches(folders[di], extension) \o all_files
  /\ di' = di + 1
  /\ UNCHANGED <<fine_vars, in_vars, gen_pc, k, io, fate, result, pool_vars, yielded, items,
                 chunk, cons_pc, log, main_vars>>

\* WalkRoot as it would be if a file already listed were not listed again
WalkRoot_Dedup ==
  /\ gen_pc = "discover" /\ cons_pc = "next"
  /\ di <= Len(folders)
  /\ ~Skipped(folders[di])
  /\ all_files' = all_files \o
       SelectSeq(RootMatches(folders[di], extension),
                 LAMBDA f : f \notin {all_files[n] : n \in 1..Len(all_files)})
  /\ di' = di + 1
  /\ UNCHANGED <<fine_vars, in_vars, gen_pc, k, io, fate, result, pool_vars, yielded, items,
                 chunk, cons_pc, log, main_vars>>

\* lines 19-20, 26-28: a root that is a directory is walked
WalkRoot ==
  /\ gen_pc = "discover" /\ cons_pc = "next"
  /\ di <= Len(folders)
  /\ ~Skipped(folders[di])
  /\ all_files' = all_files \o RootMatches(folders[di], extension)
  /\ di' = di + 1
  /\ UNCHANGED <<fine_vars, in_vars, gen_pc, k, io, fate, result, pool_vars, yielded, items,
                 chunk, cons_pc, log, main_vars>>

\* lines 30-31: nothing was found, the generator returns without a yield
ReturnEmpty ==
  /\ gen_pc = "discover" /\ cons_pc = "next"
  /\ di > Len(folders)
  /\ all_files = <<>>
  /\ gen_pc' = "finished"
  /\ cons_pc' = "stopped"
  /\ UNCHANGED <<fine_vars, in_vars, di, all_files, k, io, fate, result, pool_vars, yielded,
                 items, chunk, log, main_vars>>

\* lines 30, 49, 54: something was found, the mode is chosen
ChooseMode ==
  /\ gen_pc = "discover" /\ cons_pc = "next"
  /\ di > Len(folders)
  /\ all_files # <<>>
  /\ gen_pc' = IF use_multithreading THEN "submit" ELSE "read"
  /\ k' = 1
  /\ UNCHANGED <<fine_vars, in_vars, di, all_files, io, fate, result, pool_vars, yielded,
                 items, chunk, cons_pc, log, main_vars>>

\* SeqRead as it would be if a failed read were skipped instead of yielded
SeqRead_SkipFailed ==
  /\ gen_pc = "read" /\ cons_pc = "next"
  /\ k <= Len(all_files)
  /\ \E io_ok \in IoChoices(all_files[k]) :
       /\ io' = Append(io, io_ok)
       /\ fate' = Append(fate, ReadOutcome(all_files[k], io_ok))
       /\ result' = Append(result, read_file(all_files[k], io_ok))
       /\ log' = log \o ReadLog(all_files[k], io_ok)
       /\ IF ReadOutcome(all_files[k], io_ok) = "ok"
          THEN Deliver(k, read_file(all_files[k], io_ok))
          ELSE UNCHANGED <<yielded, items, chunk, cons_pc>>
  /\ k' = k + 1
  /\ UNCHANGED <<fine_vars, in_vars, gen_pc, di, all_files, pool_vars, main_vars>>

\* lines 55-56: the next file is read and its result yielded
SeqRead ==
  /\ gen_pc = "read" /\ cons_pc = "next"
  /\ k <= Len(all_files)
  /\ \E io_ok \in IoChoices(all_files[k]) :
       /\ io' = Append(io, io_ok)
       /\ fate' = Append(fate, ReadOutcome(all_files[k], io_ok))
       /\ result' = Append(result, read_file(all_files[k], io_ok))
       /\ log' = log \o ReadLog(all_files[k], io_ok)
       /\ Deliver(k, read_file(all_files[k], io_ok))
  /\ k' = k + 1
  /\ UNCHANGED <<fine_vars, in_vars, gen_pc, di, all_files, pool_vars, main_vars>>

\* line 55: the loop is over, the generator returns
SeqEnd ==
  /\ gen_pc = "read" /\ cons_pc = "next"
  /\ k > Len(all_files)
  /\ gen_pc' = "finished"
  /\ cons_pc' = "stopped"
  /\ UNCHANGED <<fine_vars, in_vars, di, all_files, k, io, fate, result, pool_vars, yielded,
                 items, chunk, log, main_vars>>

(***************************************************************************)
(* Concurrent mode, lines 50-53.                                           *)
(***************************************************************************)
\* Submit as it would be if the executor started a thread for every task
Submit_NoLimit ==
  /\ gen_pc = "submit" /\ cons_pc = "next"
  /\ k <= Len(all_files)
  /\ fut' = Append(fut, "running")
  /\ running' = running \cup {k}
  /\ workq' = workq
  /\ io' = Append(io, TRUE)
  /\ fate' = Append(fate, "none")
  /\ result' = Append(result, <<>>)
  /\ k' = k + 1
  /\ UNCHANGED <<fine_vars, in_vars, gen_pc, di, all_files, installed, early, waiter,
                 yielded, items, chunk, cons_pc, log, main_vars>>

\* line 51: executor.submit(read_file, file) for the next file: a worker takes
\* the task at once when fewer than max_workers tasks are being executed,
\* otherwise the task waits in the executor's queue
Submit ==
  /\ gen_pc = "submit" /\ cons_pc = "next"
  /\ k <= Len(all_files)
  /\ IF Cardinality(running) < max_workers
     THEN /\ fut' = Append(fut, "running")
          /\ running' = running \cup {k}
          /\ workq' = workq
     ELSE /\ fut' = Append(fut, "pending")
          /\ running' = running
          /\ workq' = Append(workq, k)
  /\ io' = Append(io, TRUE)
  /\ fate' = Append(fate, "none")
  /\ result' = Append(result, <<>>)
  /\ k' = k + 1
  /\ UNCHANGED <<fine_vars, in_vars, gen_pc, di, all_files, installed, early, waiter,
                 yielded, items, chunk, cons_pc, log, main_vars>>

\* FinishTask as it would be if read_file let its exception out and the
\* exception took the worker down before the future was set
FinishTask_FailureKills(i) ==
  /\ i \in running
  /\ \E io_ok \in IoChoices(all_files[i]) :
       /\ io' = [io EXCEPT ![i] = io_ok]
       /\ fate' = [fate EXCEPT ![i] = ReadOutcome(all_files[i], io_ok)]
       /\ result' = [result EXCEPT ![i] = read_file(all_files[i], io_ok)]
       /\ log' = log \o ReadLog(all_files[i], io_ok)
       /\ running' = running \ {i}
       /\ IF ReadOutcome(all_files[i], io_ok) = "ok"
          THEN /\ fut' = [fut EXCEPT ![i] = "finished"]
               /\ waiter' = IF installed THEN Append(waiter, i) ELSE waiter
          ELSE /\ fut' = fut
               /\ waiter' = waiter
  /\ UNCHANGED <<in_vars, gen_pc, di, all_files, k, workq, installed, early, yielded,
                 items, chunk, cons_pc, main_vars>>

\* a worker runs read_file to its end and sets the future's result; a future
\* that finishes after as_completed's snapshot is appended to the waiter; the
\* worker then takes the oldest queued task, if there is one
FinishTask(i) ==
  /\ i \in running
  /\ \E io_ok \in IoChoices(all_files[i]) :
       /\ io' = [io EXCEPT ![i] = io_ok]
       /\ fate' = [fate EXCEPT ![i] = ReadOutcome(all_files[i], io_ok)]
       /\ result' = [result EXCEPT ![i] = read_file(all_files[i], io_ok)]
       /\ log' = log \o ReadLog(all_files[i], io_ok)
  /\ IF workq # <<>>
     THEN /\ running' = (running \ {i}) \cup {Head(workq)}
          /\ workq' = Tail(workq)
          /\ fut' = [fut EXCEPT ![i] = "finished", ![Head(workq)] = "running"]
     ELSE /\ running' = running \ {i}
          /\ workq' = workq
          /\ fut' = [fut EXCEPT ![i] = "finished"]
  /\ waiter' = IF installed THEN Append(waiter, i) ELSE waiter
  /\ UNCHANGED <<in_vars, gen_pc, di, all_files, k, installed, early, yielded,
                 items, chunk, cons_pc, main_vars>>

\* line 52: as_completed(futures) starts: the futures already finished are
\* set aside, the others are waited for
AsCompleted ==
  /\ gen_pc = "submit" /\ cons_pc = "next"
  /\ k > Len(all_files)
  /\ installed' = TRUE
  /\ early' = {i \in 1..Len(fut) : fut[i] = "finished"}
  /\ gen_pc' = "wait"
  /\ UNCHANGED <<in_vars, di, all_files, k, io, fate, result, fut, workq, running,
                 waiter, yielded, items, chunk, cons_pc, log, main_vars>>

\* YieldEarly as it would be if a yielded future stayed in the finished set
YieldEarly_Again(i) ==
  /\ gen_pc = "wait" /\ cons_pc = "next"
  /\ i \in early
  /\ early' = early
  /\ Deliver(i, result[i])
  /\ UNCHANGED <<fine_vars, in_vars, gen_vars, fut, workq, running, installed, waiter, log,
                 main_vars>>

\* lines 52-53: a future that had finished before the snapshot is yielded;
\* as_completed holds these in a set, so in no particular order
YieldEarly(i) ==
  /\ gen_pc = "wait" /\ cons_pc = "next"
  /\ i \in early
  /\ early' = early \ {i}
  /\ Deliver(i, result[i])
  /\ UNCHANGED <<fine_vars, in_vars, gen_vars, fut, workq, running, installed, waiter, log,
                 main_vars>>

\* YieldCompleted as it would be if the newest of the futures waited for
\* were taken first
YieldCompleted_Newest ==
  /\ gen_pc = "wait" /\ cons_pc = "next"
  /\ early = {}
  /\ waiter # <<>>
  /\ waiter' = SubSeq(waiter, 1, Len(waiter) - 1)
  /\ Deliver(waiter[Len(waiter)], result[waiter[Len(waiter)]])
  /\ UNCHANGED <<fine_vars, in_vars, gen_vars, fut, workq, running, installed, early, log,
                 main_vars>>

\* lines 52-53: the future that finished first among those waited for is yielded
YieldCompleted ==
  /\ gen_pc = "wait" /\ cons_pc = "next"
  /\ early = {}
  /\ waiter # <<>>
  /\ waiter' = Tail(waiter)
  /\ Deliver(Head(waiter), result[Head(waiter)])
  /\ UNCHANGED <<fine_vars, in_vars, gen_vars, fut, workq, running, installed, early, log,
                 main_vars>>

\* lines 50-53: every future was yielded; the with block shuts the pool down
\* and the generator returns
ConcEnd ==
  /\ gen_pc = "wait" /\ cons_pc = "next"
  /\ Len(yielded) = Len(fut)
  /\ gen_pc' = "finished"
  /\ cons_pc' = "stopped"
  /\ UNCHANGED <<fine_vars, in_vars, di, all_files, k, io, fate, result, pool_vars, yielded,
                 items, chunk, log, main_vars>>


(***************************************************************************)
(* A consumer other than main: it drains the generator.                    *)
(***************************************************************************)
\* the consumer's first next()
DirectRequest ==
  /\ caller = "direct" /\ cons_pc = "start"
  /\ cons_pc' = "next"
  /\ UNCHANGED <<fine_vars, in_vars, gen_vars, pool_vars, yielded, items, chunk, log, main_vars>>

\* the consumer is done with an item and calls next() again
DirectTake ==
  /\ caller = "direct" /\ cons_pc = "got"
  /\ cons_pc' = "next"
  /\ UNCHANGED <<fine_vars, in_vars, gen_vars, pool_vars, yielded, items, chunk, log, main_vars>>

(***************************************************************************)
(* main, lines 87-129.                                                     *)
(***************************************************************************)
\* line 93: temp_output.txt is created (or truncated); the for loop calls next()
OpenTemp ==
  /\ caller = "main" /\ cons_pc = "start"
  /\ temp_exists' = TRUE
  /\ temp_created' = TRUE
  /\ temp' = <<>>
  /\ cons_pc' = "next"
  /\ UNCHANGED <<fine_vars, in_vars, gen_vars, pool_vars, yielded, items, chunk, log,
                 has_content, output_file, files, out_data, asked, outcome>>

\* line 93: open() raises; nothing in main catches it
OpenTempFails ==
  /\ caller = "main" /\ cons_pc = "start"
  /\ outcome' = "exception"
  /\ cons_pc' = "done"
  /\ UNCHANGED <<fine_vars, in_vars, gen_vars, pool_vars, temp_created, yielded, items, chunk, log,
                 temp_exists, temp, has_content, output_file, files, out_data, asked>>

\* lines 94-97: a non-empty chunk is written, an empty one is skipped
MainChunk ==
  /\ caller = "main" /\ cons_pc = "got"
  /\ temp' = IF chunk # <<>> THEN temp \o encode(chunk, "utf-8") ELSE temp
  /\ has_content' = IF chunk # <<>> THEN TRUE ELSE has_content
  /\ cons_pc' = "next"
  /\ UNCHANGED <<fine_vars, in_vars, gen_vars, pool_vars, temp_created, yielded, items, chunk, log,
                 temp_exists, output_file, files, out_data, asked, outcome>>

\* line 96: f.write raises; the with block closes the file and the exception
\* leaves main
MainWriteFails ==
  /\ caller = "main" /\ cons_pc = "got"
  /\ chunk # <<>>
  /\ outcome' = "exception"
  /\ cons_pc' = "done"
  /\ UNCHANGED <<fine_vars, in_vars, gen_vars, pool_vars, temp_created, yielded, items, chunk, log,
                 temp_exists, temp, has_content, output_file, files, out_data, asked>>

\* line 93, leaving the with block: close() flushes what was written and
\* raises; nothing in main catches it
MainCloseFails ==
  /\ caller = "main" /\ cons_pc = "stopped"
  /\ has_content
  /\ outcome' = "exception"
  /\ cons_pc' = "done"
  /\ UNCHANGED <<fine_vars, in_vars, gen_vars, pool_vars, temp_created, yielded, items, chunk, log,
                 temp_exists, temp, has_content, output_file, files, out_data, asked>>

\* NoContent as it would be without the unlink of line 101
NoContent_KeepTemp ==
  /\ caller = "main" /\ cons_pc = "stopped"
  /\ ~has_content
  /\ outcome' = "NoMatches"
  /\ cons_pc' = "done"
  /\ UNCHANGED <<fine_vars, in_vars, gen_vars, pool_vars, temp_created, yielded, items, chunk, log,
                 temp_exists, temp, has_content, output_file, files, out_data, asked>>

\* lines 99-102: nothing was written
NoContent ==
  /\ caller = "main" /\ cons_pc = "stopped"
  /\ ~has_content
  /\ temp_exists' = FALSE
  /\ temp' = <<>>
  /\ outcome' = "NoMatches"
  /\ cons_pc' = "done"
  /\ UNCHANGED <<fine_vars, in_vars, gen_vars, pool_vars, temp_created, yielded, items, chunk, log,
                 has_content, output_file, files, out_data, asked>>

\* lines 104-105: the output file is named and looked for
CheckOutput ==
  /\ caller = "main" /\ cons_pc = "stopped"
  /\ has_content
  /\ output_file' = "output.txt"
  /\ cons_pc' = IF files["output.txt"] # "absent" THEN "ask" ELSE "write"
  /\ UNCHANGED <<fine_vars, in_vars, gen_vars, pool_vars, temp_created, yielded, items, chunk, log,
                 temp_exists, temp, has_content, files, out_data, asked, outcome>>

\* lines 106-118: the user agrees to overwrite or names another file (an
\* empty new name only repeats the question)
Ask ==
  /\ caller = "main" /\ cons_pc = "ask"
  /\ asked' = TRUE
  /\ \E choice \in {"yes", "rename"} :
       output_file' = IF choice = "yes" THEN "output.txt" ELSE "other"
  /\ cons_pc' = "write"
  /\ UNCHANGED <<fine_vars, in_vars, gen_vars, pool_vars, temp_created, yielded, items, chunk, log,
                 temp_exists, temp, has_content, files, out_data, outcome>>

\* WriteOutput as it would be if line 121 opened the output file for appending
WriteOutput_Append ==
  /\ caller = "main" /\ cons_pc = "write"
  /\ files' = [files EXCEPT ![output_file] = "new"]
  /\ out_data' = (IF files[output_file] = "old"
                  THEN << [enc |-> "ascii", of |-> "old"] >> ELSE <<>>)
                 \o encode(decode(temp, preferred_encoding), "utf-8")
  /\ temp_exists' = FALSE
  /\ temp' = <<>>
  /\ outcome' = "written"
  /\ cons_pc' = "done"
  /\ UNCHANGED <<fine_vars, in_vars, gen_vars, pool_vars, temp_created, yielded, items, chunk, log,
                 has_content, output_file, asked>>

\* lines 121-124: temp_output.txt is read in the locale's encoding (read_text
\* is given none), the text is written as UTF-8 and temp_output.txt removed
WriteOutput ==
  /\ caller = "main" /\ cons_pc = "write"
  /\ files' = [files EXCEPT ![output_file] = "new"]
  /\ out_data' = encode(decode(temp, preferred_encoding), "utf-8")
  /\ temp_exists' = FALSE
  /\ temp' = <<>>
  /\ outcome' = "written"
  /\ cons_pc' = "done"
  /\ UNCHANGED <<fine_vars, in_vars, gen_vars, pool_vars, temp_created, yielded, items, chunk, log,
                 has_content, output_file, asked>>

\* lines 121, 125-129: reading temp_output.txt, opening the output file or
\* writing to it raises; the handler logs and removes temp_output.txt only
WriteOutputFails ==
  /\ caller = "main" /\ cons_pc = "write"
  /\ \E stage \in {"read", "open", "write"} :
       files' = IF stage = "write" THEN [files EXCEPT ![output_file] = "partial"]
                ELSE files
  /\ log' = Append(log, [level |-> "ERROR", what |-> "write", path |-> 0])
  /\ temp_exists' = FALSE
  /\ temp' = <<>>
  /\ outcome' = "WriteFailure"
  /\ cons_pc' = "done"
  /\ UNCHANGED <<fine_vars, in_vars, gen_vars, pool_vars, temp_created, yielded, items, chunk,
                 has_content, output_file, out_data, asked>>

Generator ==
  \/ Begin \/ SkipRoot \/ WalkRoot \/ ReturnEmpty \/ ChooseMode
  \/ SeqRead \/ SeqEnd
  \/ Submit \/ YieldCompleted \/ ConcEnd
  \/ \E i \in 1..Len(fut) : YieldEarly(i)
  \/ AsCompleted /\ UNCHANGED fine_vars

\* the variables of the finer specifications are kept by those only
Workers == \E i \in 1..Len(fut) : FinishTask(i) /\ UNCHANGED fine_vars

Consumer ==
  \/ DirectRequest \/ DirectTake
  \/ OpenTemp \/ MainChunk \/ NoContent \/ CheckOutput \/ Ask \/ WriteOutput

Faults ==
  \/ OpenTempFails \/ MainWriteFails \/ MainCloseFails \/ WriteOutputFails

Next == Generator \/ Workers \/ Consumer \/ Faults

Spec == Init /\ [][Next]_vars

\* the workers are scheduled, the generator runs when asked and the consumer
\* keeps draining; nothing is assumed about faults
FairSpec ==
  /\ Spec
  /\ WF_vars(Workers)
  /\ WF_vars(Generator)
  /\ WF_vars(Consumer)

(***************************************************************************)
(* The concurrent mode with the order of completion observed: the runs of  *)
(* Spec in concurrent mode over roots that are directories, for at most    *)
(* MaxOrderTasks files, with the history variables kept.                   *)
(***************************************************************************)
MaxOrderTasks == 4

OrderInit ==
  /\ Init
  /\ caller = "direct" /\ use_multithreading
  /\ \A n \in 1..Len(folders) : is_dir(folders[n])
  /\ Len(Discovery(folders, extension)) \in 1..MaxOrderTasks

\* FinishTask, with the completion noted
ObservedFinish(i) ==
  /\ FinishTask(i)
  /\ done_order' = Append(done_order, i)
  /\ UNCHANGED <<snapshot_at, task_vars>>

\* AsCompleted, with the number of tasks completed by then noted
ObservedSnapshot ==
  /\ AsCompleted
  /\ snapshot_at' = Len(done_order)
  /\ UNCHANGED <<done_order, task_vars>>

OrderGenerator ==
  \/ Begin \/ WalkRoot \/ ChooseMode \/ Submit \/ YieldCompleted \/ ConcEnd
  \/ \E i \in 1..Len(fut) : YieldEarly(i)

OrderConsumer == DirectRequest \/ DirectTake

OrderWorkers == \E i \in 1..Len(fut) : ObservedFinish(i)

OrderNext == OrderGenerator \/ ObservedSnapshot \/ OrderWorkers \/ OrderConsumer

OrderSpec == OrderInit /\ [][OrderNext]_vars

(***************************************************************************)
(* The concurrent mode with read_file taken step by step, lines 33-47: the *)
(* read, the two writes of print (the message, then the end of line), and  *)
(* logging.warning or logging.error, which pass the record to the handler  *)
(* of log.txt (lines 7-12) under the handler's lock.  The handler's emit   *)
(* is taken as two writes, the line's text and then its end, so that it is *)
(* the lock that keeps a line whole.  The runs are those of Spec in        *)
(* concurrent mode over roots that are directories, for at most            *)
(* MaxLogTasks files.                                                      *)
(***************************************************************************)
MaxLogTasks == 2

LogInit ==
  /\ Init
  /\ caller = "direct" /\ use_multithreading
  /\ \A n \in 1..Len(folders) : is_dir(folders[n])
  /\ Len(Discovery(folders, extension)) \in 1..MaxLogTasks

\* where task i is: "run" until it has read
PcOf(i) == IF i \in DOMAIN task_pc THEN task_pc[i] ELSE "run"

SetPc(i, pc) == [j \in DOMAIN task_pc \cup {i} |-> IF j = i THEN pc ELSE task_pc[j]]

\* lines 34-36: open and read; an exception leads to its handler
TaskRead(i) ==
  /\ i \in running /\ PcOf(i) = "run"
  /\ \E io_ok \in IoChoices(all_files[i]) :
       /\ io' = [io EXCEPT ![i] = io_ok]
       /\ fate' = [fate EXCEPT ![i] = ReadOutcome(all_files[i], io_ok)]
       /\ task_pc' = SetPc(i, IF ReadOutcome(all_files[i], io_ok) = "ok"
                              THEN "return" ELSE "print")
  /\ UNCHANGED <<hist_vars, in_vars, gen_pc, di, all_files, k, result, pool_vars,
                 yielded, items, chunk, cons_pc, log, main_vars, log_lock, log_file,
                 stderr>>

\* lines 40 and 45: print writes the message to sys.stderr
TaskPrintText(i) ==
  /\ PcOf(i) = "print"
  /\ stderr' = Append(stderr, [task |-> i, part |-> "text"])
  /\ task_pc' = SetPc(i, "print_end")
  /\ UNCHANGED <<hist_vars, in_vars, gen_vars, pool_vars, yielded, items, chunk,
                 cons_pc, log, main_vars, log_lock, log_file>>

\* lines 40 and 45: print writes the end of line, a second write
TaskPrintEnd(i) ==
  /\ PcOf(i) = "print_end"
  /\ stderr' = Append(stderr, [task |-> i, part |-> "end"])
  /\ task_pc' = SetPc(i, "log")
  /\ UNCHANGED <<hist_vars, in_vars, gen_vars, pool_vars, yielded, items, chunk,
                 cons_pc, log, main_vars, log_lock, log_file>>

\* TaskLogAcquire as it would be if the handler had no lock
TaskLogAcquire_NoLock(i) ==
  /\ PcOf(i) = "log"
  /\ log_lock' = i
  /\ task_pc' = SetPc(i, "emit")
  /\ UNCHANGED <<hist_vars, in_vars, gen_vars, pool_vars, yielded, items, chunk,
                 cons_pc, log, main_vars, log_file, stderr>>

\* lines 41 and 46: logging hands the record to the handler, which takes its
\* lock before it emits
TaskLogAcquire(i) ==
  /\ PcOf(i) = "log"
  /\ log_lock = 0
  /\ log_lock' = i
  /\ task_pc' = SetPc(i, "emit")
  /\ UNCHANGED <<hist_vars, in_vars, gen_vars, pool_vars, yielded, items, chunk,
                 cons_pc, log, main_vars, log_file, stderr>>

\* the handler writes the text of the line
TaskLogText(i) ==
  /\ PcOf(i) = "emit"
  /\ log_file' = Append(log_file, [task |-> i, part |-> "text",
                                   rec |-> ReadLog(all_files[i], io[i])[1]])
  /\ task_pc' = SetPc(i, "emit_end")
  /\ UNCHANGED <<hist_vars, in_vars, gen_vars, pool_vars, yielded, items, chunk,
                 cons_pc, log, main_vars, log_lock, stderr>>

\* the handler writes the end of the line, flushes and gives the lock back:
\* the record is in log.txt
TaskLogEnd(i) ==
  /\ PcOf(i) = "emit_end"
  /\ log_file' = Append(log_file, [task |-> i, part |-> "end",
                                   rec |-> ReadLog(all_files[i], io[i])[1]])
  /\ log' = log \o ReadLog(all_files[i], io[i])
  /\ log_lock' = IF log_lock = i THEN 0 ELSE log_lock
  /\ task_pc' = SetPc(i, "return")
  /\ UNCHANGED <<hist_vars, in_vars, gen_vars, pool_vars, yielded, items, chunk,
                 cons_pc, main_vars, stderr>>

\* lines 37, 42 and 47: read_file returns; the worker sets the future's
\* result and takes the oldest queued task, as in FinishTask
TaskReturn(i) ==
  /\ i \in running /\ PcOf(i) = "return"
  /\ result' = [result EXCEPT ![i] = read_file(all_files[i], io[i])]
  /\ IF workq # <<>>
     THEN /\ running' = (running \ {i}) \cup {Head(workq)}
          /\ workq' = Tail(workq)
          /\ fut' = [fut EXCEPT ![i] = "finished", ![Head(workq)] = "running"]
     ELSE /\ running' = running \ {i}
          /\ workq' = workq
          /\ fut' = [fut EXCEPT ![i] = "finished"]
  /\ waiter' = IF installed THEN Append(waiter, i) ELSE waiter
  /\ task_pc' = SetPc(i, "done")
  /\ UNCHANGED <<hist_vars, in_vars, gen_pc, di, all_files, k, io, fate, installed,
                 early, yielded, items, chunk, cons_pc, log, main_vars, log_lock,
                 log_file, stderr>>

LogWorkers ==
  \/ \E i \in 1..Len(fut) : TaskRead(i)
  \/ \E i \in 1..Len(fut) : TaskPrintText(i)
  \/ \E i \in 1..Len(fut) : TaskPrintEnd(i)
  \/ \E i \in 1..Len(fut) : TaskLogAcquire(i)
  \/ \E i \in 1..Len(fut) : TaskLogText(i)
  \/ \E i \in 1..Len(fut) : TaskLogEnd(i)
  \/ \E i \in 1..Len(fut) : TaskReturn(i)

LogSnapshot == AsCompleted /\ UNCHANGED fine_vars

LogNext == OrderGenerator \/ LogSnapshot \/ LogWorkers \/ OrderConsumer

LogSpec == LogInit /\ [][LogNext]_vars


(***************************************************************************)
(* Properties.                                                             *)
(***************************************************************************)
Range(s) == {s[i] : i \in 1..Len(s)}

\* the ancestors of a path, by its parent links
RECURSIVE Ancestors(_)
Ancestors(p) ==
  IF FS[p].parent = 0 THEN {} ELSE {FS[p].parent} \cup Ancestors(FS[p].parent)

AncestorsOf == [p \in Paths |-> Ancestors(p)]

\* the pairs of a capital letter and its small letter in the names of FS
CasePairs == { <<"A", "a">>, <<"B", "b">>, <<"F", "f">>, <<"M", "m">>,
               <<"T", "t">>, <<"X", "x">> }

\* equal but for the case of the letters
SameIgnoringCase(s, t) ==
  /\ Len(s) = Len(t)
  /\ \A i \in 1..Len(s) :
       \/ s[i] = t[i]
       \/ <<s[i], t[i]>> \in CasePairs
       \/ <<t[i], s[i]>> \in CasePairs

\* the regular files below root r whose suffix is ext but for case
TreeMatches(r, ext) ==
  {p \in Paths : /\ r \in Ancestors(p)
                 /\ FS[p].kind = "file"
                 /\ suffix(p) # <<>>
                 /\ SameIgnoringCase(suffix(p), ext)}

TreeMatchesOf == [r \in RootChoices, ext \in Extensions |-> TreeMatches(r, ext)]

\* how many files the discovery of lines 17-28 finds for each input
DiscoveredCount ==
  [fs \in SeqsUpTo(RootChoices, MaxRoots), ext \in Extensions |->
     Len(Discovery(fs, ext))]

\* the multiset of the non-empty items of a sequence
NonEmptyBag(s) ==
  [x \in Range(s) \ {<<>>} |-> Cardinality({i \in 1..Len(s) : s[i] = x})]

\* the block a readable text file stands for, the empty string otherwise
ExpectedItem(p, ok) ==
  IF ok /\ FS[p].utf8
  THEN <<"--- File content: ">> \o FS[p].name \o <<" ---\n">> \o FS[p].text \o <<"\n\n">>
  ELSE <<>>

\* C1: in sequential mode the j-th item yielded is the result of reading the
\* j-th discovered file, the empty string where that read failed, and when
\* the generator has returned it has yielded one item per discovered file
C1_SequentialOrder ==
  ~use_multithreading =>
    /\ Len(items) <= Len(all_files)
    /\ \A j \in 1..Len(items) :
         /\ yielded[j] = j
         /\ items[j] = ExpectedItem(all_files[j], io[j])
    /\ gen_pc = "finished" =>
         /\ Len(all_files) = DiscoveredCount[folders, extension]
         /\ Len(items) = Len(all_files)

\* a sequential run that has returned after a failed read between two good ones
C1_Witness ==
  /\ ~use_multithreading /\ gen_pc = "finished"
  /\ \E a, b, c \in 1..Len(items) :
       a < b /\ b < c /\ items[a] # <<>> /\ items[b] = <<>> /\ items[c] # <<>>
  /\ \E j \in 1..Len(fate) : fate[j] = "error"

\* C2: in concurrent mode the generator never yields more items than files,
\* and when it has returned it has yielded one item per discovered file and
\* the multiset of its non-empty items is that of the sequential loop over
\* the same files with the same read outcomes
C2_ConcurrentMultiset ==
  use_multithreading =>
    /\ Len(items) <= Len(all_files)
    /\ gen_pc = "finished" =>
         /\ Len(all_files) = DiscoveredCount[folders, extension]
         /\ Len(items) = Len(all_files)
         /\ NonEmptyBag(items) = NonEmptyBag(SequentialYield(all_files, io))

\* a concurrent run that has returned with an empty item among its items and
\* with its items in another order than the files
C2_Witness ==
  /\ use_multithreading /\ gen_pc = "finished"
  /\ Len(items) >= 3
  /\ \E j \in 1..Len(items) : items[j] = <<>>
  /\ \E a, b \in 1..Len(yielded) : a < b /\ yielded[a] > yielded[b]
  /\ items # SequentialYield(all_files, io)


\* C3: in concurrent mode, with the workers scheduled and the consumer
\* draining, a run whose tasks are being submitted ends with the generator
\* returned, every future finished and one item yielded per file, whatever
\* reads failed
C3_BatchCompletes ==
  (use_multithreading /\ gen_pc = "submit")
    ~> (/\ gen_pc = "finished"
        /\ Len(fut) = Len(all_files)
        /\ \A i \in 1..Len(all_files) : fut[i] = "finished" /\ fate[i] # "none"
        /\ Len(items) = Len(all_files)
        /\ \A i \in 1..Len(all_files) :
             \E j \in 1..Len(yielded) : yielded[j] = i /\ items[j] = result[i])

\* a concurrent run that has returned with a good block yielded after the
\* decode failure and the read failure of two other tasks
C3_Witness ==
  /\ use_multithreading /\ gen_pc = "finished"
  /\ \E a, b, c \in 1..Len(yielded) :
       /\ a < c /\ b < c
       /\ fate[yielded[a]] = "decode"
       /\ fate[yielded[b]] = "error"
       /\ fate[yielded[c]] = "ok" /\ items[c] # <<>>

\* how many records of log have the given level, kind and path
LogCount(lv, wh, p) ==
  Cardinality({n \in 1..Len(log) :
                 log[n].level = lv /\ log[n].what = wh /\ log[n].path = p})

\* how many reads of path p have ended in the given branch
FateCount(p, f) ==
  Cardinality({j \in 1..Len(fate) : all_files[j] = p /\ fate[j] = f})

\* C4: a read that succeeds returns a block that starts with the banner and
\* leaves no record; a read whose bytes do not decode returns the empty
\* string and leaves one WARNING; a read whose I/O fails returns the empty
\* string and leaves one ERROR; every read that was run has returned
C4_ReadFileOutcome ==
  /\ \A j \in 1..Len(fate) :
       fate[j] # "none" =>
         /\ (io[j] /\ FS[all_files[j]].utf8) =>
               /\ fate[j] = "ok"
               /\ result[j] # <<>>
               /\ Head(result[j]) = "--- File content: "
         /\ (io[j] /\ ~FS[all_files[j]].utf8) => fate[j] = "decode" /\ result[j] = <<>>
         /\ ~io[j] => fate[j] = "error" /\ result[j] = <<>>
  /\ \A p \in Range(all_files) :
       /\ LogCount("WARNING", "decode", p) = FateCount(p, "decode")
       /\ LogCount("ERROR", "read", p) = FateCount(p, "error")
  /\ \A n \in 1..Len(log) :
       /\ log[n].what = "decode" => log[n].level = "WARNING" /\ log[n].path \in Range(all_files)
       /\ log[n].what = "read" => log[n].level = "ERROR" /\ log[n].path \in Range(all_files)

\* a run in which each of the three branches was taken, the good read
\* being that of an empty file
C4_Witness ==
  /\ \E a, b, c \in 1..Len(fate) :
       /\ fate[a] = "ok" /\ FS[all_files[a]].text = <<>> /\ result[a] # <<>>
       /\ fate[b] = "decode"
       /\ fate[c] = "error"
  /\ Len(log) >= 2

\* the part of folders the loop of line 19 is done with
RootsDone == SubSeq(folders, 1, di - 1)

\* C5: a root that is missing or is no directory adds no file and leaves one
\* WARNING; the other roots, before and after it, add all their matches
C5_MissingRoot ==
  gen_pc # "created" =>
    /\ Len(all_files) = DiscoveredCount[RootsDone, extension]
    /\ \A p \in Range(all_files) :
         \E r \in Range(RootsDone) : FS[r].kind = "dir" /\ r \in AncestorsOf[p]
    /\ \A r \in Range(RootsDone) :
         /\ FS[r].kind = "dir" => TreeMatchesOf[r, extension] \subseteq Range(all_files)
         /\ LogCount("WARNING", "root", r)
              = Cardinality({n \in 1..Len(RootsDone) :
                               RootsDone[n] = r /\ FS[r].kind # "dir"})
    /\ \A n \in 1..Len(log) :
         log[n].what = "root" =>
           log[n].level = "WARNING" /\ log[n].path \in Range(RootsDone)

\* discovery is over a missing root followed by a directory, whose matches
\* are all in the list, with the one WARNING in the log
C5_Witness ==
  /\ gen_pc \in {"read", "submit"}
  /\ Len(folders) = 2
  /\ FS[folders[1]].kind = "absent" /\ FS[folders[2]].kind = "dir"
  /\ Len(all_files) >= 2
  /\ log = << [level |-> "WARNING", what |-> "root", path |-> folders[1]] >>

\* C6: every path of all_files is a regular file whose suffix is the
\* extension but for case, below a supplied root that is a directory
C6_DiscoverySound ==
  \A j \in 1..Len(all_files) :
    /\ FS[all_files[j]].kind = "file"
    /\ \E r \in Range(folders) :
         FS[r].kind = "dir" /\ all_files[j] \in TreeMatchesOf[r, extension]

\* discovery has put in the list a file with a capital suffix and a file
\* three levels down, next to a directory whose name has the suffix
C6_Witness ==
  /\ gen_pc \in {"read", "submit"}
  /\ \E a, b \in 1..Len(all_files) :
       /\ suffix(all_files[a]) # extension
       /\ Cardinality(AncestorsOf[all_files[b]]) = 3
  /\ \E r \in Range(folders), d \in Paths :
       r \in AncestorsOf[d] /\ FS[d].kind = "dir" /\ SameIgnoringCase(suffix(d), extension)

\* C7: over one root that is a directory, all_files has one entry for each
\* matching regular file of the tree, at any depth, and no other entry
C7_DiscoveryComplete ==
  (Len(folders) = 1 /\ FS[folders[1]].kind = "dir" /\ gen_pc \notin {"created", "discover"})
    => /\ Range(all_files) = TreeMatchesOf[folders[1], extension]
       /\ Len(all_files) = Cardinality(TreeMatchesOf[folders[1], extension])

\* discovery over root A alone has found its five matching files, two of
\* them below a subdirectory, and left out its other entries
C7_Witness ==
  /\ folders = <<1>> /\ gen_pc \in {"read", "submit"}
  /\ Len(all_files) = 5
  /\ \E p \in Range(all_files) : Cardinality(AncestorsOf[p]) >= 2
  /\ Cardinality({p \in Paths : 1 \in AncestorsOf[p]} \ Range(all_files)) >= 4


\* the generator has returned and none of its items was a block
DrainedEmpty ==
  /\ caller = "main" /\ gen_pc = "finished"
  /\ \A j \in 1..Len(items) : items[j] = <<>>

\* C8: when main has drained the generator without getting a block, it never
\* asks about overwriting and creates or writes no output file, and when it
\* has ended it has ended with NoMatches and temp_output.txt is gone
C8_NoMatches ==
  DrainedEmpty =>
    /\ ~asked
    /\ \A n \in OutputNames : files[n] \in {"absent", "old"}
    /\ out_data = <<>>
    /\ cons_pc = "done" => outcome = "NoMatches" /\ ~temp_exists

\* main has ended with NoMatches after every matching file failed to read,
\* with an output.txt of an earlier run in place
C8_Witness ==
  /\ DrainedEmpty /\ cons_pc = "done" /\ outcome = "NoMatches"
  /\ Len(all_files) >= 2
  /\ \E a, b \in 1..Len(fate) : fate[a] = "error" /\ fate[b] = "decode"
  /\ files["output.txt"] = "old"

\* C9: when main has ended with a write failure, the failure left one ERROR
\* record, temp_output.txt is gone and no output file is left partly written
C9_WriteFailureCleansUp ==
  (caller = "main" /\ cons_pc = "done" /\ outcome = "WriteFailure") =>
    /\ LogCount("ERROR", "write", 0) = 1
    /\ ~temp_exists
    /\ \A n \in OutputNames : files[n] # "partial"

\* C10: a run of main ends as output written, NoMatches or WriteFailure, and
\* never by an exception that leaves main
C10_ReportedOutcome ==
  (caller = "main" /\ cons_pc = "done") =>
    outcome \in {"written", "NoMatches", "WriteFailure"}

(***************************************************************************)
(* C11.  On a successful run the content of the final output file is the   *)
(* concatenation of exactly the non-empty blocks delivered, in the order   *)
(* of delivery: between the generator, temp_output.txt and the output file *)
(* no block is dropped, duplicated or reordered.  (An empty item adds      *)
(* nothing to a concatenation, so the blocks delivered concatenate to      *)
(* Flatten(items).)  temp_output.txt does hold that text as UTF-8, but     *)
(* line 121 reads it back in the locale's encoding, so where that is not   *)
(* UTF-8 the output file holds other characters than the blocks delivered. *)
(***************************************************************************)
C11_OutputIsConcatenation ==
  /\ (caller = "main" /\ cons_pc \in {"next", "stopped", "ask", "write"})
       => temp = encode(Flatten(items), "utf-8")
  /\ outcome = "written" => decode(out_data, "utf-8") = Flatten(items)

(***************************************************************************)
(* C12.  Two runs over the same unchanged tree with the same roots and     *)
(* extension, hence the same traversal order and the same read outcomes,   *)
(* give the same aggregated output in sequential mode and the same         *)
(* multiset of blocks in concurrent mode.  Stated of one run: what a run   *)
(* produces is a function of what the two runs have in common (the roots,  *)
(* the extension, the tree, the outcome of each read, the platform), and   *)
(* of nothing else the run meets, such as an output file left by an        *)
(* earlier run, the answer to the overwrite question or the scheduling of  *)
(* the workers.                                                            *)
(***************************************************************************)
\* the list of files lines 17-28 build for each input
DiscoveryOf ==
  [fs \in SeqsUpTo(RootChoices, MaxRoots), ext \in Extensions |-> Discovery(fs, ext)]

\* the blocks of a run, from its inputs and its read outcomes alone
BlocksOfRun == SequentialYield(DiscoveryOf[folders, extension], io)

C12_RerunSameOutput ==
  /\ gen_pc = "finished" =>
        /\ Len(io) = Len(DiscoveryOf[folders, extension])
        /\ IF use_multithreading
           THEN NonEmptyBag(items) = NonEmptyBag(BlocksOfRun)
           ELSE items = BlocksOfRun
  /\ outcome = "written" =>
        out_data = encode(decode(encode(Flatten(BlocksOfRun), "utf-8"),
                                 preferred_encoding), "utf-8")

\* a run of main that wrote its output over the output.txt of an earlier
\* run, after a read that failed
C12_Witness ==
  /\ outcome = "written" /\ asked /\ output_file = "output.txt"
  /\ Len(items) >= 2
  /\ \E j \in 1..Len(items) : items[j] = <<>>
  /\ out_data # <<>>

(***************************************************************************)
(* C13.  As claimed: for any list of roots, in either mode, each matching  *)
(* file that was read well is represented by exactly one non-empty block   *)
(* and each matching file whose read failed by exactly one empty item; no  *)
(* matching file is read or emitted twice in one run.                      *)
(***************************************************************************)
\* the matching files below the roots supplied
FilesUnderRoots ==
  UNION {TreeMatchesOf[folders[n], extension] : n \in 1..Len(folders)}

\* the positions of the discovered list that hold file p
EntriesOf(p) == {j \in 1..Len(all_files) : all_files[j] = p}

\* the positions of the yielded sequence that stand for file p
EmittedFor(p) == {n \in 1..Len(yielded) : all_files[yielded[n]] = p}

C13_OncePerFile ==
  gen_pc = "finished" =>
    \A p \in FilesUnderRoots :
      /\ Cardinality({j \in EntriesOf(p) : fate[j] # "none"}) = 1
      /\ Cardinality(EmittedFor(p)) = 1
      /\ \A n \in EmittedFor(p) : (items[n] # <<>>) <=> (fate[yielded[n]] = "ok")

\* C13, amended: each entry of the discovered list is read and is
\* represented by exactly one item, a non-empty block if its read went well
\* and an empty item if not; no entry is emitted twice; and a matching file
\* is an entry once for every supplied root it lies below, so it is read and
\* emitted once where it lies below one supplied root only
C13_OncePerEntry ==
  /\ \A a, b \in 1..Len(yielded) : a # b => yielded[a] # yielded[b]
  /\ \A n \in 1..Len(yielded) :
       /\ yielded[n] \in 1..Len(all_files)
       /\ fate[yielded[n]] # "none"
       /\ (items[n] # <<>>) <=> (fate[yielded[n]] = "ok")
  /\ gen_pc = "finished" =>
       /\ Range(yielded) = 1..Len(all_files)
       /\ Range(all_files) = FilesUnderRoots
       /\ \A p \in FilesUnderRoots :
            /\ Cardinality(EntriesOf(p)) =
                 Cardinality({n \in 1..Len(folders) :
                                p \in TreeMatchesOf[folders[n], extension]})
            /\ Cardinality(EmittedFor(p)) = Cardinality(EntriesOf(p))

\* a finished run over a root supplied twice, with a file whose two reads
\* went differently
C13_Witness ==
  /\ gen_pc = "finished"
  /\ Len(folders) = 2 /\ folders[1] = folders[2]
  /\ \E a, b \in 1..Len(all_files) :
       /\ a # b /\ all_files[a] = all_files[b]
       /\ fate[a] = "ok" /\ fate[b] = "error"

(***************************************************************************)
(* C16.  The discovered list is the concatenation of the per-root match    *)
(* lists in the caller's root order: for roots at positions i < j every    *)
(* file found under root i comes before every file found under root j, and *)
(* the files of one root keep their traversal order; in sequential mode    *)
(* the blocks are yielded in this same order.                              *)
(***************************************************************************)
\* the traversal of each root, <<>> for a root that is no directory
RglobOf == [r \in RootChoices |-> IF is_dir(r) THEN rglob(r) ELSE <<>>]

\* the place of path p in the traversal of root r
PlaceIn(r, p) == CHOOSE i \in 1..Len(RglobOf[r]) : RglobOf[r][i] = p

\* how many entries the roots before position n contribute
RECURSIVE EntriesBefore(_)
EntriesBefore(n) ==
  IF n <= 1 THEN 0
  ELSE EntriesBefore(n - 1) + Cardinality(TreeMatchesOf[folders[n - 1], extension])

C16_RootOrder ==
  /\ gen_pc \notin {"created", "discover"} => di = Len(folders) + 1
  /\ Len(all_files) = EntriesBefore(di)
  \* the entries of the n-th root are a block of the list, in traversal order
  /\ \A n \in 1..(di - 1) :
       /\ \A q \in (EntriesBefore(n) + 1)..EntriesBefore(n + 1) :
            all_files[q] \in TreeMatchesOf[folders[n], extension]
       /\ \A q1, q2 \in (EntriesBefore(n) + 1)..EntriesBefore(n + 1) :
            q1 < q2 => PlaceIn(folders[n], all_files[q1]) < PlaceIn(folders[n], all_files[q2])
  \* the sequential loop yields in the order of the list
  /\ ~use_multithreading =>
       \A j \in 1..Len(yielded) :
         /\ yielded[j] = j
         /\ items[j] \in {<<>>, ExpectedItem(all_files[j], TRUE)}

\* a sequential run over B and then A that has yielded a block of B and
\* then a block of A/sub/deep
C16_Witness ==
  /\ ~use_multithreading /\ gen_pc = "finished"
  /\ folders = <<11, 1>>
  /\ \E a, b \in 1..Len(items) :
       /\ a < b /\ items[a] # <<>> /\ items[b] # <<>>
       /\ all_files[a] = 13 /\ all_files[b] = 10

(***************************************************************************)
(* C15.  In concurrent mode at most 4 read tasks are being executed at any *)
(* time, however many files were submitted; a task beyond the fourth waits *)
(* in the executor's queue while all 4 workers are busy, and every queued  *)
(* task is started in the end.                                             *)
(***************************************************************************)
PoolBounded ==
  /\ Cardinality(running) <= max_workers
  /\ workq # <<>> => Cardinality(running) = max_workers
  /\ \A i \in 1..Len(fut) :
       /\ fut[i] = "running" <=> i \in running
       /\ fut[i] = "pending" <=> i \in Range(workq)

\* a task leaves the queue only by being started (PoolBounded), so every
\* queued task is started in the end if the queue is always emptied in the end
C15_BoundedPool ==
  /\ []PoolBounded
  /\ (workq # <<>>) ~> (workq = <<>>)

\* four tasks are being executed and the fifth waits in the queue
C15_Witness ==
  /\ use_multithreading
  /\ Cardinality(running) = max_workers
  /\ workq = <<5>>
  /\ fut[5] = "pending"

(***************************************************************************)
(* C18.  As claimed: in both modes no file is read and no block is yielded *)
(* until discovery has gone over every root and the list is complete;      *)
(* discovery does not start until the consumer asks for the first item,    *)
(* which main does only after it has created temp_output.txt; so every run *)
(* of main, a NoMatches run included, passes through a state in which      *)
(* temp_output.txt exists.                                                 *)
(***************************************************************************)
\* nothing is read, submitted or yielded before the list is complete
ReadsAfterDiscovery ==
  (Len(fate) > 0 \/ Len(fut) > 0 \/ Len(yielded) > 0) =>
     /\ gen_pc \notin {"created", "discover"}
     /\ di = Len(folders) + 1
     /\ all_files = DiscoveryOf[folders, extension]

\* the body of the generator runs only once the consumer has asked, and in
\* main only once temp_output.txt has been created
DiscoveryAfterRequest ==
  gen_pc # "created" =>
     /\ cons_pc # "start"
     /\ caller = "main" => temp_created

C18_EveryRunHasTemp ==
  /\ ReadsAfterDiscovery
  /\ DiscoveryAfterRequest
  /\ (caller = "main" /\ cons_pc = "done") => temp_created

\* C18, amended: the same, but it is every run of main that gets past the
\* open of line 93 (every run in which discovery starts, and every run that
\* ends as output written, NoMatches or WriteFailure) that passes through a
\* state in which temp_output.txt exists; a run in which that open raises
\* ends without temp_output.txt and without discovery
C18_RunsPastOpenHaveTemp ==
  /\ ReadsAfterDiscovery
  /\ DiscoveryAfterRequest
  /\ temp_exists => temp_created
  /\ (caller = "main" /\ outcome \in {"written", "NoMatches", "WriteFailure"})
       => temp_created
  /\ (caller = "main" /\ cons_pc # "start" /\ ~temp_created)
       => (outcome = "exception" /\ cons_pc = "done" /\ gen_pc = "created")

\* a NoMatches run that found files, none of them readable: temp_output.txt
\* has existed and is gone
C18_Witness ==
  /\ caller = "main" /\ outcome = "NoMatches"
  /\ Len(all_files) > 0
  /\ temp_created /\ ~temp_exists

(***************************************************************************)
(* C14.  As claimed: in concurrent mode a block is yielded only after its  *)
(* task has completed, and the blocks are yielded in the order in which    *)
(* their tasks completed, the tasks that completed before the consumer     *)
(* could take an item included: the sequence yielded is always the         *)
(* beginning of the sequence of completions.                               *)
(***************************************************************************)
C14_CompletionOrder ==
  \A n \in 1..Len(yielded) :
    /\ n <= Len(done_order)
    /\ yielded[n] = done_order[n]

\* C14, amended: a block is yielded only after its task has completed; the
\* tasks that had completed when as_completed started are yielded first, in
\* no particular order; the tasks that completed after that are yielded in
\* the order in which they completed
C14_LateInCompletionOrder ==
  /\ ~installed => yielded = <<>>
  /\ \A n \in 1..Len(yielded) :
       /\ yielded[n] \in Range(done_order)
       /\ n <= snapshot_at =>
            yielded[n] \in {done_order[m] : m \in 1..snapshot_at}
       /\ n > snapshot_at => yielded[n] = done_order[n]

\* a finished run of four tasks: two had completed at the snapshot and were
\* yielded in the other order, two completed later
C14_Witness ==
  /\ gen_pc = "finished"
  /\ Len(yielded) = 4 /\ snapshot_at = 2
  /\ yielded[1] = done_order[2] /\ yielded[2] = done_order[1]

(***************************************************************************)
(* C17.  As claimed: when several read tasks fail at the same time, each   *)
(* failure record is written to the log as one whole line; no interleaving *)
(* of the workers gives a log line that mixes parts of two records or      *)
(* loses a record; and the log sink is the only mutable state shared       *)
(* between read tasks.                                                     *)
(***************************************************************************)
\* log.txt is whole lines, each the text and the end written by one task,
\* but for a last line that the holder of the lock is still writing
WholeLines ==
  /\ \A n \in 1..Len(log_file) :
       IF n % 2 = 1
       THEN log_file[n].part = "text"
       ELSE /\ log_file[n].part = "end"
            /\ log_file[n].task = log_file[n - 1].task
            /\ log_file[n].rec = log_file[n - 1].rec
  /\ Len(log_file) % 2 = 1 => log_lock = log_file[Len(log_file)].task

\* the lines of log.txt that task i has ended
LinesOf(i) == {n \in 1..Len(log_file) : log_file[n].task = i /\ log_file[n].part = "end"}

\* a task that failed and has returned has one line, with its own record;
\* no task has more than one, a task that read well has none
NoRecordLost ==
  \A i \in 1..Len(fate) :
    /\ Cardinality(LinesOf(i)) <= 1
    /\ fate[i] \in {"none", "ok"} => LinesOf(i) = {}
    /\ (fate[i] \in {"decode", "error"} /\ PcOf(i) \in {"return", "done"}) =>
         /\ Cardinality(LinesOf(i)) = 1
         /\ \A n \in LinesOf(i) :
              << log_file[n].rec >> = ReadLog(all_files[i], io[i])
    /\ (fate[i] \in {"decode", "error"} /\ fut[i] = "finished") =>
         Cardinality(LinesOf(i)) = 1

\* a step of read_file in task i: from the read up to the return
ReadFileStep(i) ==
  /\ PcOf(i) \in {"run", "print", "print_end", "log", "emit", "emit_end"}
  /\ PcOf(i)' # PcOf(i)

\* the step leaves alone what belongs to the other tasks, to the pool, to
\* the generator and to the consumer
OthersKept(i) ==
  /\ \A j \in (1..Len(fate)) \ {i} :
       io'[j] = io[j] /\ fate'[j] = fate[j] /\ PcOf(j)' = PcOf(j)
  /\ UNCHANGED <<in_vars, gen_pc, di, all_files, k, result, pool_vars, yielded,
                 items, chunk, cons_pc, main_vars>>

C17_LogOnlyShared ==
  /\ []WholeLines
  /\ []NoRecordLost
  /\ [][\A i \in 1..MaxLogTasks :
          ReadFileStep(i) => (OthersKept(i) /\ stderr' = stderr)]_vars

\* C17, amended: the same of the log, but the read tasks share two sinks,
\* the log and the error stream (print to sys.stderr, lines 40 and 45):
\* a step of read_file changes nothing else that is not the task's own
C17_LogAndStderrShared ==
  /\ []WholeLines
  /\ []NoRecordLost
  /\ [][\A i \in 1..MaxLogTasks : ReadFileStep(i) => OthersKept(i)]_vars

\* two tasks have failed and both are at the log: one holds the lock with
\* its line half written, the other waits; their two messages on the error
\* stream ran into each other
C17_Witness ==
  /\ log_lock # 0
  /\ Len(log_file) = 1
  /\ \E j \in 1..Len(fut) : j # log_lock /\ PcOf(j) = "log"
  /\ Len(stderr) = 4
  /\ stderr[1].part = "text" /\ stderr[2].part = "text"

====
